---- MODULE Spec2Model ----
(***************************************************************************)
(* Model of benchmarks.py: plugin discovery (get_methods), the registry    *)
(* based orchestrator (bench_product), the analytic-inversion variant      *)
(* (bench_qaa) and the product dispatcher (run_benchmarks).                *)
(*                                                                         *)
(* Algorithm entry points, the sensor band lookup, the QAA engine and the  *)
(* scoring function are collaborators outside benchmarks.py: what they     *)
(* return is an input of the model, drawn from small sets.                 *)
(***************************************************************************)
EXTENDS Integers, Sequences, FiniteSets, TLC

\* ------------------------------------------------------------------ bounds
\* Longest plugin layout (symbols listed over all algorithm folders).
MaxSyms == 2
\* Widest estimate / ground-truth matrix (columns).
MaxCols == 2
\* Number of wavelengths get_sensor_bands returns for the sensor.
NWaves == 2
\* Most keys in the slices mapping given to run_benchmarks.
MaxKeys == 3

\* ------------------------------------------------------------- python data
None == "None"

Range(s) == {s[i] : i \in 1..Len(s)}

EmptyDict == [k \in {} |-> 0]

\* dict.update(other): entries of other replace and extend those of d.
DictUpdate(d, other) ==
  [k \in DOMAIN d \cup DOMAIN other |-> IF k \in DOMAIN other THEN other[k] ELSE d[k]]

\* dict(zip(opt_vars, [1]*len(opt_vars)))
Placeholders(opt_vars) == [k \in Range(opt_vars) |-> 1]

\* A dict that preserves insertion order is a sequence of [name, fn] items.
Keys(d) == {d[i].name : i \in 1..Len(d)}

Lookup(d, name) == (CHOOSE i \in 1..Len(d) : d[i].name = name)

\* methods[model_name] = partial(model, sensor=sensor): a new key is appended,
\* an existing key keeps its position and gets the new value.
SetItem(d, name, fn) ==
  IF name \in Keys(d)
    THEN [d EXCEPT ![Lookup(d, name)] = [name |-> name, fn |-> fn]]
    ELSE Append(d, [name |-> name, fn |-> fn])

\* ------------------------------------------------------------ plugin layout
\* One record per symbol that dir(imported) lists, in enumeration order:
\*   folder      the algorithm folder (the `name` of iter_modules)
\*   in_name     'model' in function
\*   has_attr    hasattr(model, 'has_default')
\*   has_default, opt_vars, model_name (None when the attribute is absent)
\*   probe       what the entry point does when called on the placeholder
\*               matrix: "value" | "none" | "raise", or "strict": a function
\*               with an explicit keyword signature, which raises TypeError
\*               for a keyword other than tol and its own opt_vars.
Folders == <<"F1", "F2">>

OptVarsFor(hd) == IF hd THEN {<<"a">>} ELSE {<<"a">>, <<"a", "b">>}

EntryShapes(probes) ==
  { [in_name |-> TRUE, has_attr |-> TRUE, has_default |-> hd, opt_vars |-> ov,
     model_name |-> mn, probe |-> pr] :
      hd \in BOOLEAN, ov \in {<<"a">>, <<"a", "b">>}, mn \in {None, "X"}, pr \in probes }

NonEntryShapes ==
  { [in_name |-> b, has_attr |-> FALSE, has_default |-> FALSE, opt_vars |-> <<>>,
     model_name |-> None, probe |-> "none"] : b \in BOOLEAN }

SymbolShapes(probes) ==
  {e \in EntryShapes(probes) : e.opt_vars \in OptVarsFor(e.has_default)} \cup NonEntryShapes

WithFolder(shape, f) ==
  [folder |-> f, in_name |-> shape.in_name, has_attr |-> shape.has_attr,
   has_default |-> shape.has_default, opt_vars |-> shape.opt_vars,
   model_name |-> shape.model_name, probe |-> shape.probe]

\* A layout of n symbols: the first `cut` lie in folder F1, the rest in F2.
Layout(sh, cut) ==
  [i \in 1..Len(sh) |-> WithFolder(sh[i], IF i <= cut THEN Folders[1] ELSE Folders[2])]

VARIABLES
  layout,      \* the plugin layout under Benchmarks/<product>
  allow_opt,   \* get_methods argument
  callerKw,    \* the **kwargs the caller of get_methods supplied
  caller,      \* who called get_methods: "top" or "bench_product"
  pc,          \* control position
  idx,         \* position of the loops of lines 26/30 in layout
  kwargs,      \* get_methods' kwargs dict
  methods,     \* the registry under construction / returned
  probeLog,    \* history: every probe call of line 43, in order
  callNo,      \* history: which of two successive get_methods calls is running
  firstKeys,   \* history: key set the first get_methods call returned
  bp,          \* bench_product's arguments
  it,          \* position of the loop of line 69 in methods.items()
  ests,        \* bench_product's ests list
  lbls,        \* bench_product's lbls list
  runLog,      \* history: every call of line 71, with what the algorithm returned
  result,      \* the mapping bench_product returned
  rb,          \* run_benchmarks' arguments and what the QAA engine outputs
  param,       \* bench_qaa's param list
  qi,          \* position of the loop of line 244 in param
  looked,      \* history: the names bench_qaa looked up in the QAA outputs
  ranQaa,      \* history: run_benchmarks called bench_qaa
  benchmarks   \* run_benchmarks' merged mapping (its labels)

gmVars == <<layout, allow_opt, callerKw, caller, idx, kwargs, methods, probeLog,
            callNo, firstKeys>>

benchVars == <<bp, it, ests, lbls, runLog, result>>

rbVars == <<rb, param, qi, looked, ranQaa, benchmarks>>

vars == <<pc, gmVars, benchVars, rbVars>>

\* --------------------------------------------------------------- get_methods
IsCandidate(s) == s.in_name /\ s.has_attr

\* Variant of Gate: the has_default test dropped.
GateAlways(s, ao) == TRUE

\* line 36
Gate(s, ao) == s.has_default \/ ao

\* line 45
DisplayName(s) == IF s.model_name # None THEN s.model_name ELSE s.folder

\* line 43: the entry point called with the resolved named parameters.
ProbeOutcome(s, kw) ==
  IF s.probe = "strict"
    THEN IF DOMAIN kw \subseteq ({"tol"} \cup Range(s.opt_vars)) THEN "value" ELSE "raise"
    ELSE s.probe

\* Variant of OnProbeRaise: the exception is not caught.
OnProbeRaiseUncaught == "gm_raised"

\* lines 48-50: where control goes when the probe raised.
OnProbeRaise == "gm_loop"

\* Variant of CallKwargs: the dict of the previous call is used again.
CallKwargsShared(supplied, leftover) == leftover

\* line 14: **kwargs is a dict made anew for each call.
CallKwargs(supplied, leftover) == supplied

\* lines 33-35: a symbol that is no entry point is passed over.
GM_SkipSymbol ==
  /\ pc = "gm_loop" /\ idx <= Len(layout)
  /\ ~IsCandidate(layout[idx])
  /\ idx' = idx + 1
  /\ UNCHANGED <<layout, allow_opt, callerKw, caller, pc, kwargs, methods, probeLog,
                 callNo, firstKeys, benchVars, rbVars>>

\* lines 36, 53-54: no default parameters and optimization not allowed.
GM_RequiresOpt ==
  /\ pc = "gm_loop" /\ idx <= Len(layout)
  /\ IsCandidate(layout[idx]) /\ ~Gate(layout[idx], allow_opt)
  /\ idx' = idx + 1
  /\ UNCHANGED <<layout, allow_opt, callerKw, caller, pc, kwargs, methods, probeLog,
                 callNo, firstKeys, benchVars, rbVars>>

\* lines 36-50: dummy parameters, the probe call, registration.
GM_Probe ==
  /\ pc = "gm_loop" /\ idx <= Len(layout)
  /\ IsCandidate(layout[idx]) /\ Gate(layout[idx], allow_opt)
  /\ LET s   == layout[idx]
         kw  == IF ~s.has_default THEN DictUpdate(kwargs, Placeholders(s.opt_vars))
                                  ELSE kwargs
         out == ProbeOutcome(s, kw)
     IN /\ kwargs' = kw
        /\ probeLog' = Append(probeLog, [call |-> callNo, cand |-> idx, kw |-> kw, out |-> out])
        /\ methods' = IF out = "value" THEN SetItem(methods, DisplayName(s), idx)
                                       ELSE methods
        /\ pc' = IF out = "raise" THEN OnProbeRaise ELSE "gm_loop"
  /\ idx' = idx + 1
  /\ UNCHANGED <<layout, allow_opt, callerKw, caller, callNo, firstKeys, benchVars, rbVars>>

\* line 55
GM_Return ==
  /\ pc = "gm_loop" /\ idx > Len(layout)
  /\ pc' = "gm_done"
  /\ UNCHANGED <<layout, allow_opt, callerKw, caller, idx, kwargs, methods, probeLog,
                 callNo, firstKeys, benchVars, rbVars>>

\* The caller calls get_methods once more with the same arguments
\* (lines 14, 22: fresh kwargs, methods = {}).
GM_CallAgain ==
  /\ pc = "gm_done" /\ caller = "top" /\ callNo = 1
  /\ firstKeys' = Keys(methods)
  /\ callNo' = 2
  /\ kwargs' = CallKwargs(callerKw, kwargs)
  /\ methods' = <<>>
  /\ idx' = 1
  /\ pc' = "gm_loop"
  /\ UNCHANGED <<layout, allow_opt, callerKw, caller, probeLog, benchVars, rbVars>>

\* Values of the variables of a component that a specification does not run.
BenchIdle ==
  /\ bp = [method |-> None, product |-> "chl", silent |-> TRUE, xcols |-> 1, ycols |-> 0,
           slices |-> None]
  /\ it = 1
  /\ ests = <<>>
  /\ lbls = <<>>
  /\ runLog = <<>>
  /\ result = EmptyDict

DispatchIdle ==
  /\ rb = [slices |-> <<>>, qaa |-> EmptyDict, with_ml |-> FALSE]
  /\ param = <<>>
  /\ qi = 1
  /\ looked = <<>>
  /\ ranQaa = FALSE
  /\ benchmarks = {}

\* The symbols of the layouts get_methods is run on directly.
DiscoveryShapes ==
  {s \in SymbolShapes({"value", "none", "raise", "strict"}) :
     (s.has_attr /\ ~s.has_default) => s.probe # "strict"}

\* The caller supplies nothing, or a value for an opt_var and a tolerance.
CallerKwChoices == {EmptyDict, [k \in {"a", "tol"} |-> IF k = "a" THEN 5 ELSE 15]}

InitDiscovery ==
  /\ \E n \in 0..MaxSyms :
       \E sh \in [1..n -> DiscoveryShapes], cut \in 0..n : layout = Layout(sh, cut)
  /\ allow_opt \in BOOLEAN
  /\ callerKw \in CallerKwChoices
  /\ caller = "top"
  /\ pc = "gm_loop"
  /\ idx = 1
  /\ kwargs = callerKw
  /\ methods = <<>>
  /\ probeLog = <<>>
  /\ callNo = 1
  /\ firstKeys = {}
  /\ BenchIdle
  /\ DispatchIdle

NextDiscovery ==
  \/ GM_SkipSymbol
  \/ GM_RequiresOpt
  \/ GM_Probe
  \/ GM_Return
  \/ GM_CallAgain

SpecDiscovery == InitDiscovery /\ [][NextDiscovery]_vars

\* ------------------------------------------------------------- bench_product
\* Matrix elements are floats: NaN, +inf, -inf, or a finite number (in tenths).
NaN == [k |-> "nan", v |-> 0]
PosInf == [k |-> "inf", v |-> 0]
NegInf == [k |-> "-inf", v |-> 0]
Float(v) == [k |-> "fin", v |-> v]

ElemSeq == <<Float(-10), NaN, Float(32), PosInf, NegInf, Float(0)>>

Elems == Range(ElemSeq)

\* A matrix is a sequence of rows (samples), each a sequence of elements.
Cols(m) == Len(m[1])

\* What an algorithm may return for the test data: every element alone, a row
\* of each width up to MaxCols with mixed elements, and the column
\* [-1.0, NaN, 3.2].
EstMatrices ==
  {<<<<e>>>> : e \in Elems}
    \cup {<<[c \in 1..n |-> ElemSeq[((c - 1) % Len(ElemSeq)) + 1]]>> : n \in 2..MaxCols}
    \cup {<<<<Float(-10)>>, <<NaN>>, <<Float(32)>>>>}

\* np.isfinite
IsFinite(e) == e.k = "fin"

\* e < 0 as numpy compares: False for NaN and +inf, True for -inf.
Negative(e) == e.k = "-inf" \/ (e.k = "fin" /\ e.v < 0)

ZeroNonFinite(e) == IF ~IsFinite(e) THEN Float(0) ELSE e

ZeroNegative(e) == IF Negative(e) THEN Float(0) ELSE e

\* line 74: est_val[~np.isfinite(est_val)] = 0
MaskNonFinite(m) == [r \in 1..Len(m) |-> [c \in 1..Len(m[r]) |-> ZeroNonFinite(m[r][c])]]

\* line 75: est_val[est_val < 0] = 0
MaskNegative(m) == [r \in 1..Len(m) |-> [c \in 1..Len(m[r]) |-> ZeroNegative(m[r][c])]]

\* Variant of Clamp: line 74 left out.
ClampNegativeOnly(m) == MaskNegative(m)

\* lines 74-75
Clamp(m) == MaskNegative(MaskNonFinite(m))

\* Variant of BandsOk: the assertion of line 62 left out.
BandsUnchecked(xcols, nwaves) == TRUE

\* line 62
BandsOk(xcols, nwaves) == xcols <= nwaves

\* Variant of MethodKnown: the assertion of line 65 left out.
MethodUnchecked(method, registry) == TRUE

\* line 65
MethodKnown(method, registry) == method = None \/ method \in Keys(registry)

\* Variant of Selected: every registry item is run.
SelectedAll(method, name) == TRUE

\* line 70
Selected(method, name) == method = None \/ name = method

\* Variant of ShapesAgree: the assertion of line 80 left out.
ShapesUnchecked(ycols, est) == TRUE

\* line 80
ShapesAgree(ycols, est) == ycols = Cols(est)

\* dict(zip(lbls, ests)): a later item of the same label replaces an earlier one.
DictZip(ls, es) ==
  [n \in Range(ls) |-> es[CHOOSE i \in 1..Len(ls) :
                             ls[i] = n /\ \A j \in 1..Len(ls) : ls[j] = n => j <= i]]

\* lines 59-64: the two entry assertions, then the call of get_methods.
BP_Enter ==
  /\ pc = "bp_start"
  /\ pc' = IF ~(bp.silent \/ bp.ycols # 0) THEN "bp_raised_noy"
           ELSE IF ~BandsOk(bp.xcols, NWaves) THEN "bp_raised_bands"
           ELSE "gm_loop"
  /\ UNCHANGED <<gmVars, benchVars, rbVars>>

\* lines 65-68
BP_CheckMethod ==
  /\ pc = "gm_done" /\ caller = "bench_product"
  /\ pc' = IF MethodKnown(bp.method, methods) THEN "bp_items" ELSE "bp_raised_unknown"
  /\ it' = 1
  /\ ests' = <<>>
  /\ lbls' = <<>>
  /\ UNCHANGED <<gmVars, bp, runLog, result, rbVars>>

\* lines 69-70: a registry item that is not the requested one is passed over.
BP_SkipItem ==
  /\ pc = "bp_items" /\ it <= Len(methods)
  /\ ~Selected(bp.method, methods[it].name)
  /\ it' = it + 1
  /\ UNCHANGED <<pc, gmVars, bp, ests, lbls, runLog, result, rbVars>>

\* lines 71-87: the algorithm returns est_val for the test data.
BP_RunItem ==
  /\ pc = "bp_items" /\ it <= Len(methods)
  /\ Selected(bp.method, methods[it].name)
  /\ \E out \in EstMatrices :
       LET est_val == IF bp.product = "chl" THEN Clamp(out) ELSE out
       IN  /\ runLog' = Append(runLog, [name |-> methods[it].name, fn |-> methods[it].fn,
                                         raised |-> FALSE, out |-> out])
           /\ IF ~bp.silent /\ bp.slices = None /\ ~ShapesAgree(bp.ycols, est_val)
                THEN /\ pc' = "bp_raised_ambiguous"
                     /\ UNCHANGED <<it, ests, lbls>>
              ELSE IF ~bp.silent /\ bp.slices = "without_product"
                THEN /\ pc' = "bp_raised_key"
                     /\ UNCHANGED <<it, ests, lbls>>
              ELSE /\ ests' = Append(ests, est_val)
                   /\ lbls' = Append(lbls, methods[it].name)
                   /\ it' = it + 1
                   /\ pc' = pc
  /\ UNCHANGED <<gmVars, bp, result, rbVars>>

\* line 71: the algorithm raises on the test data; nothing catches it.
BP_RunRaises ==
  /\ pc = "bp_items" /\ it <= Len(methods)
  /\ Selected(bp.method, methods[it].name)
  /\ runLog' = Append(runLog, [name |-> methods[it].name, fn |-> methods[it].fn,
                               raised |-> TRUE, out |-> <<>>])
  /\ pc' = "bp_raised_run"
  /\ UNCHANGED <<gmVars, bp, it, ests, lbls, result, rbVars>>

\* line 88
BP_Return ==
  /\ pc = "bp_items" /\ it > Len(methods)
  /\ result' = DictZip(lbls, ests)
  /\ pc' = "bp_returned"
  /\ UNCHANGED <<gmVars, bp, it, ests, lbls, runLog, rbVars>>

\* The symbols of the layouts bench_product is run on.
BenchShapes ==
  {s \in SymbolShapes({"value", "none", "raise"}) :
     /\ s.opt_vars \in {<<>>, <<"a">>}
     /\ (s.has_attr /\ ~s.has_default) => (s.model_name = None /\ s.probe = "value")
     /\ ~s.has_attr => s.in_name}

\* The method names a caller may ask for: None, the display names a layout
\* can produce, and a name no layout produces.
MethodChoices == {None, "F1", "X", "Z"}

\* y_test, slices and silent: with silent=True, without y_test, or with a
\* y_test of 1..MaxCols columns and slices absent, naming the product, or not
\* naming it.
ScoringChoices ==
  {[silent |-> TRUE, ycols |-> 0, slices |-> None],
   [silent |-> FALSE, ycols |-> 0, slices |-> None]}
    \cup {[silent |-> FALSE, ycols |-> n, slices |-> s] :
            n \in 1..MaxCols, s \in {None, "with_product", "without_product"}}

InitBench ==
  /\ \E n \in 0..MaxSyms :
       \E sh \in [1..n -> BenchShapes], cut \in 0..n : layout = Layout(sh, cut)
  /\ allow_opt = FALSE
  /\ callerKw = [k \in {"tol"} |-> 15]
  /\ caller = "bench_product"
  /\ pc = "bp_start"
  /\ idx = 1
  /\ kwargs = callerKw
  /\ methods = <<>>
  /\ probeLog = <<>>
  /\ callNo = 1
  /\ firstKeys = {}
  /\ \E m \in MethodChoices, p \in {"chl", "tss"}, x \in {NWaves, NWaves + 1},
        sc \in ScoringChoices :
       bp = [method |-> m, product |-> p, silent |-> sc.silent, xcols |-> x,
             ycols |-> sc.ycols, slices |-> sc.slices]
  /\ it = 1
  /\ ests = <<>>
  /\ lbls = <<>>
  /\ runLog = <<>>
  /\ result = EmptyDict
  /\ DispatchIdle

NextBench ==
  \/ BP_Enter
  \/ GM_SkipSymbol
  \/ GM_RequiresOpt
  \/ GM_Probe
  \/ GM_Return
  \/ BP_CheckMethod
  \/ BP_SkipItem
  \/ BP_RunItem
  \/ BP_RunRaises
  \/ BP_Return

SpecBench == InitBench /\ [][NextBench]_vars

\* ----------------------------------------------- run_benchmarks and bench_qaa
\* A slice key is a string, modelled as its sequence of characters.
K_aph == <<"a", "p", "h">>
K_astar == <<"a", "*", "p", "h">>
K_adg == <<"a", "d", "g">>
K_bb_p == <<"b", "b", "_", "p">>
K_chl == <<"c", "h", "l">>
K_tss == <<"t", "s", "s">>

SliceKeys == {K_aph, K_astar, K_adg, K_bb_p, K_chl, K_tss}

\* sub in k
Contains(k, sub) ==
  \E i \in 1..(Len(k) - Len(sub) + 1) : SubSeq(k, i, i + Len(sub) - 1) = sub

\* name.replace('_', '')
StripUnderscore(k) == SelectSeq(k, LAMBDA ch : ch # "_")

\* line 312: k[0] in ['a','b'] and '*' not in k and 'ad' not in k
DispatchKey(k) == k[1] \in {"a", "b"} /\ ~Contains(k, <<"*">>) /\ ~Contains(k, <<"a", "d">>)

\* line 239: k[0]=='a' or k[0]=='b'
QaaKey(k) == k[1] = "a" \/ k[1] = "b"

\* The outputs the QAA engine may hold, by name; each agrees in shape with
\* the ground-truth slice of that name ("match") or does not ("mismatch").
QaaOutputNames == {K_aph, K_adg, <<"b", "b", "p">>}

\* The labels the registry-based benches may return.
RegistryLabels == {<<"F1">>, <<"X">>}

\* line 121-152: the keys of bench_ml's methods
MlLabels == {<<"XGB">>, <<"SVM">>, <<"MLP">>, <<"KNN">>}

Label(by, key) == [by |-> by, key |-> key]

\* lines 311-313: the dispatch on the slice keys, entering bench_qaa
\* (lines 238-242) when a key of the absorption/backscatter family is there.
RB_Dispatch ==
  /\ pc = "rb_start"
  /\ IF \E i \in 1..Len(rb.slices) : DispatchKey(rb.slices[i])
       THEN /\ pc' = "qaa_loop"
            /\ ranQaa' = TRUE
            /\ param' = SelectSeq(rb.slices, QaaKey)
       ELSE /\ pc' = "rb_chl"
            /\ UNCHANGED <<ranQaa, param>>
  /\ qi' = 1
  /\ UNCHANGED <<gmVars, benchVars, rb, looked, benchmarks>>

\* lines 244-257: one name of param is looked up in the QAA outputs.
QAA_Item ==
  /\ pc = "qaa_loop" /\ qi <= Len(param)
  /\ LET name == param[qi]
         out  == StripUnderscore(name)
     IN  /\ looked' = Append(looked, name)
         /\ IF out \in DOMAIN rb.qaa
              THEN IF rb.qaa[out] = "match"
                     THEN /\ benchmarks' = benchmarks \cup {Label("QAA", name)}
                          /\ qi' = qi + 1
                          /\ pc' = pc
                     ELSE /\ pc' = "qaa_raised_shape"
                          /\ UNCHANGED <<benchmarks, qi>>
              ELSE /\ pc' = "qaa_raised_key"
                   /\ UNCHANGED <<benchmarks, qi>>
  /\ UNCHANGED <<gmVars, benchVars, rb, param, ranQaa>>

\* lines 258, 313
QAA_Return ==
  /\ pc = "qaa_loop" /\ qi > Len(param)
  /\ pc' = "rb_chl"
  /\ UNCHANGED <<gmVars, benchVars, rbVars>>

\* lines 318-322: bench_chl, then bench_ml when with_ml; either returns a
\* mapping that is merged, or raises.
RB_Chl ==
  /\ pc = "rb_chl"
  /\ IF K_chl \in Range(rb.slices)
       THEN \/ /\ pc' = "rb_raised"
               /\ UNCHANGED benchmarks
            \/ \E got \in SUBSET RegistryLabels :
                 /\ benchmarks' = benchmarks \cup {Label("chl", l) : l \in got}
                                    \cup (IF rb.with_ml THEN {Label("ml", l) : l \in MlLabels}
                                                         ELSE {})
                 /\ pc' = "rb_tss"
       ELSE /\ pc' = "rb_tss"
            /\ UNCHANGED benchmarks
  /\ UNCHANGED <<gmVars, benchVars, rb, param, qi, looked, ranQaa>>

\* lines 325-329: bench_product for 'tss', then the return.
RB_Tss ==
  /\ pc = "rb_tss"
  /\ IF K_tss \in Range(rb.slices)
       THEN \/ /\ pc' = "rb_raised"
               /\ UNCHANGED benchmarks
            \/ \E got \in SUBSET RegistryLabels :
                 /\ benchmarks' = benchmarks \cup {Label("tss", l) : l \in got}
                 /\ pc' = "rb_done"
       ELSE /\ pc' = "rb_done"
            /\ UNCHANGED benchmarks
  /\ UNCHANGED <<gmVars, benchVars, rb, param, qi, looked, ranQaa>>

\* Values of get_methods' variables when a specification does not run it.
DiscoveryIdle ==
  /\ layout = <<>>
  /\ allow_opt = FALSE
  /\ callerKw = EmptyDict
  /\ caller = "run_benchmarks"
  /\ idx = 1
  /\ kwargs = EmptyDict
  /\ methods = <<>>
  /\ probeLog = <<>>
  /\ callNo = 1
  /\ firstKeys = {}

\* Injective sequences of slice keys: a dict lists each key once, in
\* insertion order.
SliceOrders ==
  UNION { {s \in [1..n -> SliceKeys] : \A i, j \in 1..n : s[i] = s[j] => i = j} :
          n \in 0..MaxKeys }

InitDispatch ==
  /\ DiscoveryIdle
  /\ BenchIdle
  /\ pc = "rb_start"
  /\ \E sl \in SliceOrders, names \in SUBSET QaaOutputNames, ml \in BOOLEAN :
       \E q \in [names -> {"match", "mismatch"}] :
         rb = [slices |-> sl, qaa |-> q, with_ml |-> ml]
  /\ param = <<>>
  /\ qi = 1
  /\ looked = <<>>
  /\ ranQaa = FALSE
  /\ benchmarks = {}

NextDispatch ==
  \/ RB_Dispatch
  \/ QAA_Item
  \/ QAA_Return
  \/ RB_Chl
  \/ RB_Tss

SpecDispatch == InitDispatch /\ [][NextDispatch]_vars

\* ------------------------------------------------- properties of get_methods
\* The probes of the get_methods call that is running (or has just returned).
ProbesOf(i) == {n \in 1..Len(probeLog) : probeLog[n].call = callNo /\ probeLog[n].cand = i}

Candidates == {i \in 1..Len(layout) : IsCandidate(layout[i])}

\* The registry items bound to entry point i.
BoundTo(i) == {n \in 1..Len(methods) : methods[n].fn = i}

Returned == pc = "gm_done"

\* C1 as stated: after get_methods(..., allow_opt=False) returns, the display
\* name of every candidate with has_default false is no key of the registry,
\* and that candidate was never probed.
C1_NameAbsent ==
  (Returned /\ ~allow_opt) =>
    \A i \in Candidates :
      ~layout[i].has_default =>
        /\ DisplayName(layout[i]) \notin Keys(methods)
        /\ ProbesOf(i) = {}

\* C1 amended: after get_methods(..., allow_opt=False) returns, no registry
\* item is bound to a candidate with has_default false and that candidate was
\* never probed; its display name is a key only when a probed candidate with
\* has_default true and the same display name registered it.
C1_NotBound ==
  (Returned /\ ~allow_opt) =>
    \A i \in Candidates :
      ~layout[i].has_default =>
        /\ BoundTo(i) = {}
        /\ ProbesOf(i) = {}
        /\ DisplayName(layout[i]) \in Keys(methods) =>
             LET j == methods[Lookup(methods, DisplayName(layout[i]))].fn
             IN  /\ j \in Candidates
                 /\ layout[j].has_default
                 /\ ProbesOf(j) # {}

C1_Witness ==
  /\ Returned /\ ~allow_opt
  /\ \E i \in Candidates :
       /\ ~layout[i].has_default
       /\ DisplayName(layout[i]) \in Keys(methods)

\* The candidates whose probe line 43 runs.
Gated == {i \in Candidates : layout[i].has_default \/ allow_opt}

ProbeOut(i) == probeLog[CHOOSE n \in ProbesOf(i) : TRUE].out

\* The last candidate with a given display name whose probe returned a value.
LastValue(name) ==
  CHOOSE j \in Gated :
    /\ DisplayName(layout[j]) = name /\ ProbeOut(j) = "value"
    /\ \A k \in Gated : (DisplayName(layout[k]) = name /\ ProbeOut(k) = "value") => k <= j

\* C2: get_methods never raises because a probe raised or returned None; when
\* it returns, every candidate that reaches the probe was probed exactly once,
\* a candidate whose probe raised or returned None is bound to no registry
\* item, and a candidate whose probe returned a value has its display name
\* registered (bound to the last such candidate of that name).
C2_ProbeFaultContained ==
  /\ pc # "gm_raised"
  /\ Returned =>
       \A i \in Gated :
         /\ Cardinality(ProbesOf(i)) = 1
         /\ ProbeOut(i) # "value" => BoundTo(i) = {}
         /\ ProbeOut(i) = "value" =>
              /\ DisplayName(layout[i]) \in Keys(methods)
              /\ methods[Lookup(methods, DisplayName(layout[i]))].fn
                   = LastValue(DisplayName(layout[i]))

\* A probe raised, and a candidate of a later folder is registered all the same.
C2_Witness ==
  /\ Returned
  /\ \E i, j \in Gated :
       /\ i < j /\ layout[i].folder # layout[j].folder
       /\ ProbeOut(i) = "raise"
       /\ BoundTo(j) # {}

\* C8: the second of two successive get_methods calls with the same layout
\* and arguments returns a registry with the key set of the first.
C8_Idempotent == (Returned /\ callNo = 2) => Keys(methods) = firstKeys

\* The first call left placeholders in its kwargs, and an entry point that
\* rejects unknown keywords is registered by both calls.
C8_Witness ==
  /\ Returned /\ callNo = 2
  /\ \E n \in 1..Len(probeLog) : probeLog[n].call = 1 /\ probeLog[n].kw # callerKw
  /\ \E i \in Gated : layout[i].probe = "strict" /\ BoundTo(i) # {}

\* The parameters C9 says the probe of entry point s receives: the caller's,
\* plus 1 for each of s.opt_vars the caller did not supply when s has no default.
Resolved(s, supplied) ==
  LET own == IF s.has_default THEN {} ELSE Range(s.opt_vars)
  IN  [k \in DOMAIN supplied \cup own |-> IF k \in DOMAIN supplied THEN supplied[k] ELSE 1]

\* C9: with allow_opt=True every probe receives exactly the caller's
\* parameters plus placeholders for its own missing opt_vars.
C9_ResolvedProbeParameters ==
  allow_opt =>
    \A n \in 1..Len(probeLog) :
      probeLog[n].kw = Resolved(layout[probeLog[n].cand], callerKw)

\* ----------------------------------------------- properties of bench_product
\* Control positions of bench_product before get_methods has been called.
BeforeDiscovery == {"bp_start", "bp_raised_noy", "bp_raised_bands"}

\* Control positions up to the assertion of line 65.
BeforeMethodCheck == BeforeDiscovery \cup {"gm_loop", "gm_raised", "gm_done"}

\* C3: called with more feature columns than wavelengths, bench_product
\* fails before get_methods is entered: no entry point has been probed and
\* none has been run on x_test, and control never gets past the assertions.
C3_BandCountFirst ==
  bp.xcols > NWaves =>
    /\ probeLog = <<>>
    /\ runLog = <<>>
    /\ pc \in BeforeDiscovery

\* The assertion of line 62 fired for a layout with a probeable entry point.
C3_Witness ==
  /\ pc = "bp_raised_bands"
  /\ \E i \in Candidates : layout[i].has_default /\ layout[i].probe = "value"

\* C4 as stated: when the unknown-method assertion fires, no entry point has
\* been invoked, neither as a feasibility probe nor on the test data.
C4_NothingInvoked ==
  pc = "bp_raised_unknown" => (probeLog = <<>> /\ runLog = <<>>)

\* C4 amended: a method name that is no key of the registry get_methods
\* returned makes bench_product raise at line 65, before any entry point is
\* run on the test data and without a result; by then get_methods has probed
\* every candidate that has default parameters.
C4_FailsBeforeRun ==
  (bp.method # None /\ pc \notin BeforeMethodCheck /\ bp.method \notin Keys(methods)) =>
    /\ pc = "bp_raised_unknown"
    /\ runLog = <<>>
    /\ result = EmptyDict
    /\ \A i \in Gated : ProbesOf(i) # {}

C4_Witness ==
  /\ pc = "bp_raised_unknown"
  /\ probeLog # <<>>
  /\ methods # <<>>

\* C5: when the requested method is a key of the registry, exactly one
\* registry item is run on the test data, it is the requested one, and the
\* mapping returned has that name as its only key; with a registry of one
\* algorithm the mapping returned has the registry's key set, whether the
\* method was None or that name.
C5_KnownMethod ==
  /\ (bp.method # None /\ pc \in {"bp_returned", "bp_raised_run", "bp_raised_ambiguous",
                                  "bp_raised_key"}) =>
       /\ Len(runLog) = 1
       /\ runLog[1].name = bp.method
  /\ (bp.method # None /\ pc = "bp_returned") => DOMAIN result = {bp.method}
  /\ (pc = "bp_returned" /\ Len(methods) = 1) => DOMAIN result = Keys(methods)

\* A named method was run alone out of a registry of two.
C5_Witness ==
  /\ pc = "bp_returned" /\ bp.method # None /\ bp.silent
  /\ Len(methods) = 2
  /\ bp.method = methods[2].name

\* What line 71 returned for the registry item of a name.
RawOf(name) == runLog[CHOOSE n \in 1..Len(runLog) : runLog[n].name = name].out

\* The element C6 says is returned for element e of a chlorophyll estimate.
ClampedElem(e) == IF e = NaN \/ e = PosInf \/ e = NegInf \/ e.v < 0 THEN Float(0) ELSE e

\* C6: for product 'chl' every element returned is finite and non-negative,
\* 0 where the algorithm produced NaN, +inf, -inf or a negative number and the
\* algorithm's element elsewhere; for another product the estimates are
\* returned as the algorithm produced them.
C6_ChlClamped ==
  pc = "bp_returned" =>
    \A name \in DOMAIN result :
      LET est == result[name]
          raw == RawOf(name)
      IN  IF bp.product = "chl"
            THEN /\ Len(est) = Len(raw)
                 /\ \A r \in 1..Len(est) :
                      /\ Len(est[r]) = Len(raw[r])
                      /\ \A c \in 1..Len(est[r]) :
                           /\ est[r][c].k = "fin" /\ est[r][c].v >= 0
                           /\ est[r][c] = ClampedElem(raw[r][c])
            ELSE est = raw

\* The column [-1.0, NaN, 3.2] came back as [0.0, 0.0, 3.2].
C6_Witness ==
  /\ pc = "bp_returned" /\ bp.product = "chl"
  /\ \E name \in DOMAIN result :
       /\ RawOf(name) = <<<<Float(-10)>>, <<NaN>>, <<Float(32)>>>>
       /\ result[name] = <<<<Float(0)>>, <<Float(0)>>, <<Float(32)>>>>

\* Scoring is on, slices is None and y_test has more than one column.
AmbiguousCall == ~bp.silent /\ bp.slices = None /\ bp.ycols > 1

NonSpecial(k) ==
  /\ Len(k) > 0 /\ (k[1] = "a" \/ k[1] = "b")
  /\ \A i \in 1..Len(k) : k[i] # "*"
  /\ \A i \in 1..(Len(k) - 1) : ~(k[i] = "a" /\ k[i + 1] = "d")

\* C10: run_benchmarks calls bench_qaa exactly when some slice key is
\* non-special, and bench_qaa looks up (and can fail on) non-special keys only.
C10_SpecialKeysIgnored ==
  /\ pc # "rb_start" => (ranQaa <=> \E i \in 1..Len(rb.slices) : NonSpecial(rb.slices[i]))
  /\ \A n \in 1..Len(looked) : NonSpecial(looked[n])
  /\ pc = "qaa_raised_key" => NonSpecial(param[qi])

====
